---- MODULE Spec2Model ----
(***************************************************************************)
(* Availability resolution engine of check-availability: the intent        *)
(* parsing chain (LLM parser, chrono fallback, default slot) and the        *)
(* expanding search with slot categorisation, as one request's run.        *)
(*                                                                         *)
(* Instants are integers, in seconds.  A zone is a fixed UTC offset in     *)
(* seconds (daylight-saving transitions are not modelled).  An ISO-8601    *)
(* string is a record [t, fmt]: the instant it denotes and the way it is   *)
(* written; two strings are equal iff both fields are.                     *)
(***************************************************************************)
EXTENDS Integers, Sequences, FiniteSets, TLC

Minute == 60
Hour == 60 * Minute
Day == 24 * Hour

\* ------------------------------------------------------------ ISO strings

\* Ways a timestamp string is written.  "offset": 2025-10-29T14:00:00-05:00;
\* "offset_ms": 2025-10-29T14:00:00.000-05:00 (what luxon's toISO() writes);
\* "utc_ms": 2025-10-29T19:00:00.000Z (what Date.toISOString() writes);
\* "no_offset": 2025-10-29T14:00:00; "bad_calendar": 2025-13-40T14:00:00-05:00
\* (the shape of a timestamp, no date of the calendar); "garbage": not a date.
Str(t, fmt) == [t |-> t, fmt |-> fmt]

\* DateTime.fromISO(s).isValid
IsValidISO(s) == s.fmt \in {"offset", "offset_ms", "utc_ms", "no_offset"}

\* DateTime.fromISO(s) as an instant (of a valid string).
FromISO(s) == s.t

\* DateTime.toISO()
ToISO(t) == Str(t, "offset_ms")

\* z.string().datetime({ offset: true }): the shape of a timestamp with Z or an
\* explicit offset; the calendar is not consulted.
ZodDatetimeOffset(s) == s.fmt \in {"offset", "offset_ms", "utc_ms", "bad_calendar"}

\* ------------------------------------------------------------ wall clock

WallDay(t, off) == (t + off) \div Day
WallSecond(t, off) == (t + off) % Day

\* DateTime.set({hour, minute, second: 0, millisecond: 0}) in a zone.
SetHourMinute(t, off, h, m) == WallDay(t, off) * Day + h * Hour + m * Minute - off

\* DateTime.set({hour, minute}) in a zone: the seconds are kept.
SetHourMinuteKeep(t, off, h, m) ==
    WallDay(t, off) * Day + h * Hour + m * Minute + (WallSecond(t, off) % Minute) - off

HourOf(t, off) == WallSecond(t, off) \div Hour
MinuteOf(t, off) == (WallSecond(t, off) % Hour) \div Minute

Abs(x) == IF x < 0 THEN -x ELSE x

\* ------------------------------------------------------------ the request

\* The caller's zone as a UTC offset: America/Chicago (-05:00 in summer) and
\* Pacific/Honolulu (-10:00).
Timezones == {0 - 5 * Hour, 0 - 10 * Hour}

\* The zone of the runtime's own clock (JS Date's local getters): UTC.
SystemOffsets == {0 * Hour}

\* Values of DateTime.now(): 14:15:20 UTC and 02:40:00 UTC of day 20 (the
\* second is still the evening of the day before in both caller zones).
Nows == {20 * Day + 14 * Hour + 15 * Minute + 20, 20 * Day + 2 * Hour + 40 * Minute}

NoClock == [given |-> FALSE, h |-> 0, m |-> 0, s |-> 0]
Clock(h, m, s) == [given |-> TRUE, h |-> h, m |-> m, s |-> s]

\* A user query, by what the parsers read of it: the words fallbackParse
\* looks for, and what the date grammar finds in it (a day word, a clock
\* time, the length in seconds of a stated range, 0 when none is stated).
Query(words, date, clock, range) ==
    [lunch |-> "lunch" \in words, morning |-> "morning" \in words,
     afternoon |-> "afternoon" \in words, evening |-> "evening" \in words,
     sameTime |-> "same time" \in words,
     date |-> date, clock |-> clock, range |-> range]

Queries ==
    { Query({"lunch"}, "tomorrow", NoClock, 0),              \* "tomorrow around lunch"
      Query({"lunch"}, "none", NoClock, 0),                  \* "lunch sometime"
      Query({}, "today", Clock(15, 0, 0), 0),                \* "today at 3pm"
      Query({}, "tomorrow", Clock(15, 0, 10), 30),           \* "tomorrow 15:00:10 to 15:00:40"
      Query({}, "tomorrow", Clock(14, 0, 0), 2 * Hour),      \* "tomorrow from 2pm to 4pm"
      Query({"morning"}, "tomorrow", NoClock, 0),            \* "tomorrow morning"
      Query({"lunch", "same time"}, "tomorrow", NoClock, 0)  \* "lunch tomorrow, same time"
    }

\* request.rejectedTimes: absent, or an array of strings.
NoRejected == [defined |-> FALSE, list |-> <<>>]
Rejected(list) == [defined |-> TRUE, list |-> list]

\* ------------------------------------------------------------ date grammar

NoParse == [found |-> FALSE, start |-> 0, hourCertain |-> FALSE, hasEnd |-> FALSE, end |-> 0]

\* chrono.parse(userQuery, refDate, {forwardDate: true})[0]: the JS Dates of
\* the first candidate.  The grammar works on the runtime's wall clock: a day
\* word is resolved against the runtime's date of refDate, a clock time is
\* read on the runtime's clock, and with no clock time the time of refDate is
\* implied (and the hour is not certain).
ChronoParse(q, refDate, sysOff) ==
    IF q.date = "none" /\ ~q.clock.given THEN NoParse
    ELSE LET day == WallDay(refDate, sysOff) + (IF q.date = "tomorrow" THEN 1 ELSE 0)
             sec == IF q.clock.given
                      THEN q.clock.h * Hour + q.clock.m * Minute + q.clock.s
                      ELSE WallSecond(refDate, sysOff)
             st == day * Day + sec - sysOff
         IN [found |-> TRUE, start |-> st, hourCertain |-> q.clock.given,
             hasEnd |-> q.range > 0, end |-> st + q.range]

\* ------------------------------------------------------------ LLM parser

\* What the language-model call ends with.  "text": a text block came back;
\* json: it holds a JSON object; the object's four fields follow
\* (confidence in hundredths, interpretation by its length).
LLMText(json, st, en, interp, conf) ==
    [kind |-> "text", json |-> json, startTime |-> st, endTime |-> en,
     interpretation |-> interp, confidence |-> conf]
LLMFailure(kind) ==
    [LLMText(FALSE, Str(0, "garbage"), Str(0, "garbage"), 0, 0) EXCEPT !.kind = kind]

\* A window the model may answer with: tomorrow 11:30 in the caller's zone.
NoLLMOutput == LLMFailure("none")

LLMStart(now, tz) == SetHourMinute(now + Day, tz, 11, 30)

LLMOutcomes(now, tz) ==
    LET a == LLMStart(now, tz)
        ok(st, en, conf) == LLMText(TRUE, st, en, 40, conf)
    IN { LLMFailure("timeout"), LLMFailure("api_error"), LLMFailure("no_text"),
         LLMText(FALSE, Str(0, "garbage"), Str(0, "garbage"), 0, 0),
         LLMText(TRUE, Str(a, "offset"), Str(a + 2 * Hour, "offset"), 5, 90),
         ok(Str(a, "no_offset"), Str(a + 2 * Hour, "offset"), 90),
         ok(Str(a, "offset"), Str(a + 2 * Hour, "offset"), 101),
         ok(Str(a, "offset"), Str(a + 2 * Hour, "offset"), 49),
         ok(Str(a, "offset"), Str(a + 2 * Hour, "offset"), 50),
         ok(Str(a + 3 * Hour, "utc_ms"), Str(a + 4 * Hour, "offset"), 90),
         ok(Str(a, "bad_calendar"), Str(a + 2 * Hour, "offset"), 90),
         ok(Str(a, "offset"), Str(a, "utc_ms"), 90),
         ok(Str(a + Hour, "offset"), Str(a, "offset"), 90) }

ConfidenceThreshold == 50

Null == [ok |-> FALSE, startTime |-> Str(0, "garbage"), endTime |-> Str(0, "garbage"),
         confidence |-> 0]
Parsed(st, en, conf) == [ok |-> TRUE, startTime |-> st, endTime |-> en, confidence |-> conf]

\* buildDateParsingPrompt: rejectedTimes is typed as a string and .trim() is
\* called on it whenever it is not undefined; the request carries an array,
\* which has no trim, so building the prompt throws for every array.
PromptThrows(rejectedTimes) == rejectedTimes.defined

\* LLMDateParseResponseSchema
validateLLMResponse(out) ==
    /\ ZodDatetimeOffset(out.startTime)
    /\ ZodDatetimeOffset(out.endTime)
    /\ out.interpretation >= 10 /\ out.interpretation <= 200
    /\ out.confidence >= 0 /\ out.confidence <= 100

ConfidenceTooLowInclusive(confidence) == confidence <= ConfidenceThreshold

ConfidenceTooLow(confidence) == confidence < ConfidenceThreshold

EndNotAfterStart(start, end) == end <= start

\* LLMDateParser.parse: null, or the validated response.
LLMParse(rejectedTimes, out) ==
    IF PromptThrows(rejectedTimes) THEN Null
    ELSE IF out.kind # "text" THEN Null
    ELSE IF ~out.json THEN Null
    ELSE IF ~validateLLMResponse(out) THEN Null
    ELSE IF ConfidenceTooLow(out.confidence) THEN Null
    ELSE IF ~IsValidISO(out.startTime) \/ ~IsValidISO(out.endTime) THEN Null
    ELSE IF EndNotAfterStart(FromISO(out.startTime), FromISO(out.endTime)) THEN Null
    ELSE Parsed(out.startTime, out.endTime, out.confidence)

\* ------------------------------------------------------------ fallback parser

\* The two fallbackParse sources differ in how the grammar's JS Date becomes a
\* DateTime of the caller's zone.

\* "components": DateTime.fromObject({year .. minute of the Date's local
\* getters, second: 0}, {zone}): the runtime's wall-clock reading, cut to the
\* minute, re-read in the caller's zone.
FromComponents(date, sysOff, tz) ==
    LET wall == date + sysOff
    IN (wall - (wall % Minute)) - tz

\* "instant": DateTime.fromJSDate(date, {zone}): the same instant.
FromJSDate(date, sysOff, tz) == date

Variants == {"components", "instant"}

ToDateTime(variant, date, sysOff, tz) ==
    IF variant = "components" THEN FromComponents(date, sysOff, tz)
    ELSE FromJSDate(date, sysOff, tz)

RejectWindow == 30

\* The loop of avoidRejectedTimes over the rejected strings from index i: the
\* first valid one less than 30 minutes from proposedStart moves it one hour.
\* (An invalid string is filtered out, or gives a NaN difference: no shift.)
RECURSIVE AvoidFrom(_, _, _)
AvoidFrom(proposedStart, list, i) ==
    IF i > Len(list) THEN proposedStart
    ELSE IF IsValidISO(list[i]) /\ Abs(proposedStart - FromISO(list[i])) < RejectWindow * Minute
         THEN proposedStart + Hour
         ELSE AvoidFrom(proposedStart, list, i + 1)

avoidRejectedTimesRechecked(proposedStart, list) ==
    AvoidFrom(AvoidFrom(proposedStart, list, 1), list, 1)

\* avoidRejectedTimes looking at the first rejected time only.
avoidRejectedTimesFirstOnly(proposedStart, list) ==
    IF Len(list) >= 1 /\ IsValidISO(list[1])
          /\ Abs(proposedStart - FromISO(list[1])) < RejectWindow * Minute
    THEN proposedStart + Hour
    ELSE proposedStart

avoidRejectedTimes(proposedStart, list) == AvoidFrom(proposedStart, list, 1)

defaultTimeSlotToday(now, tz) ==
    LET today10am == SetHourMinute(now, tz, 10, 0)
    IN Parsed(ToISO(today10am), ToISO(today10am + Hour), 30)

\* defaultTimeSlot: tomorrow 10:00 in the caller's zone, one hour.
defaultTimeSlot(now, tz) ==
    LET tomorrow10am == SetHourMinute(now + Day, tz, 10, 0)
    IN Parsed(ToISO(tomorrow10am), ToISO(tomorrow10am + Hour), 30)

TimeOfDayLunchAtNoon(q, g, start, end, tz) ==
    IF q.lunch THEN
        LET s == SetHourMinute(start, tz, 12, 0) IN <<s, s + 2 * Hour>>
    ELSE IF ~g.hourCertain THEN
        LET s == SetHourMinute(start, tz, 10, 0) IN <<s, s + Hour>>
    ELSE <<start, end>>

TimeOfDayMorningFirst(q, g, start, end, tz) ==
    IF q.morning THEN
        LET s == SetHourMinute(start, tz, 9, 0) IN <<s, SetHourMinuteKeep(s, tz, 12, 0)>>
    ELSE IF q.lunch THEN
        LET s == SetHourMinute(start, tz, 11, 30) IN <<s, s + 2 * Hour>>
    ELSE IF q.afternoon THEN
        LET s == SetHourMinute(start, tz, 13, 0) IN <<s, SetHourMinuteKeep(s, tz, 17, 0)>>
    ELSE IF q.evening THEN
        LET s == SetHourMinute(start, tz, 17, 0) IN <<s, SetHourMinuteKeep(s, tz, 20, 0)>>
    ELSE IF ~g.hourCertain THEN
        LET s == SetHourMinute(start, tz, 10, 0) IN <<s, s + Hour>>
    ELSE <<start, end>>

\* The time-of-day heuristics: <<start, end>> after the if / else-if chain.
TimeOfDay(q, g, start, end, tz) ==
    IF q.lunch THEN
        LET s == SetHourMinute(start, tz, 11, 30) IN <<s, s + 2 * Hour>>
    ELSE IF q.morning THEN
        LET s == SetHourMinute(start, tz, 9, 0) IN <<s, SetHourMinuteKeep(s, tz, 12, 0)>>
    ELSE IF q.afternoon THEN
        LET s == SetHourMinute(start, tz, 13, 0) IN <<s, SetHourMinuteKeep(s, tz, 17, 0)>>
    ELSE IF q.evening THEN
        LET s == SetHourMinute(start, tz, 17, 0) IN <<s, SetHourMinuteKeep(s, tz, 20, 0)>>
    ELSE IF ~g.hourCertain THEN
        LET s == SetHourMinute(start, tz, 10, 0) IN <<s, s + Hour>>
    ELSE <<start, end>>

\* The "same time" rule, applied after the chain.
SameTime(q, se, now, tz) ==
    IF q.sameTime THEN
        LET s == SetHourMinute(se[1], tz, HourOf(now, tz), MinuteOf(now, tz))
        IN <<s, s + Hour>>
    ELSE se

\* Rejected-time avoidance that keeps the span: the end moves with the start.
AvoidRejectedKeepsSpan(se, rejectedTimes) ==
    IF rejectedTimes.defined /\ Len(rejectedTimes.list) > 0 THEN
        LET s == avoidRejectedTimes(se[1], rejectedTimes.list) IN <<s, s + (se[2] - se[1])>>
    ELSE se

\* Rejected-time avoidance: with a non-empty array the start may move, and
\* the end is set to one hour after the start.
AvoidRejected(se, rejectedTimes) ==
    IF rejectedTimes.defined /\ Len(rejectedTimes.list) > 0 THEN
        LET s == avoidRejectedTimes(se[1], rejectedTimes.list) IN <<s, s + Hour>>
    ELSE se

fallbackParse(variant, q, now, tz, sysOff, rejectedTimes) ==
    LET g == ChronoParse(q, now, sysOff)
    IN IF ~g.found THEN defaultTimeSlot(now, tz)
       ELSE LET start == ToDateTime(variant, g.start, sysOff, tz)
                end == IF g.hasEnd THEN ToDateTime(variant, g.end, sysOff, tz)
                       ELSE start + Hour
                se == AvoidRejected(
                        SameTime(q, TimeOfDay(q, g, start, end, tz), now, tz),
                        rejectedTimes)
            IN Parsed(ToISO(se[1]), ToISO(se[2]), 60)

\* ------------------------------------------------------------ parseUserQuery

Intent(r, method) ==
    [startTime |-> r.startTime, endTime |-> r.endTime, confidence |-> r.confidence,
     method |-> method]

NoIntent == Intent(Null, "none")

FallbackMethodStrict(confidence) ==
    IF confidence > 60 THEN "fallback_chrono" ELSE "fallback_default"

FallbackMethod(confidence) ==
    IF confidence > 50 THEN "fallback_chrono" ELSE "fallback_default"

\* parseUserQuery once the LLM parser has returned llmResult.
parseUserQuery(llmResult, variant, q, now, tz, sysOff, rejectedTimes) ==
    IF llmResult.ok THEN Intent(llmResult, "llm")
    ELSE LET fallbackResult == fallbackParse(variant, q, now, tz, sysOff, rejectedTimes)
         IN Intent(fallbackResult, FallbackMethod(fallbackResult.confidence))

\* ------------------------------------------------------------ slot source

\* What one fetch of the slot source ends with: "ok" (the times of the
\* response, in the order of the mapping), "http_error" (response.ok false),
\* "network_error" (fetch rejects), "timeout" (the 5 s abort fires first).
CalOutcome(kind, times) == [kind |-> kind, times |-> times]

NumSlots == 14

\* The calendar of the runs: NumSlots openings around anchor, from four hours
\* before to four hours after it in half hours, every third one moved out to
\* whole multiples of thirteen hours; not in time order.
SlotOffset(i) ==
    (((i * 5) % 17) - 8) * (IF i % 3 = 0 THEN 13 * Hour ELSE 30 * Minute)

SlotTime(anchor, i) == Str(anchor + SlotOffset(i), "offset_ms")

Calendar(anchor) == [i \in 1..NumSlots |-> SlotTime(anchor, i)]

\* Responses of the slot source: the first n openings of the calendar, for
\* every n, the openings from the ninth on, one unreadable time, and the
\* three failures.
CalOutcomes(anchor) ==
    {CalOutcome("ok", SubSeq(Calendar(anchor), 1, n)) : n \in 0..NumSlots}
    \cup {CalOutcome("ok", SubSeq(Calendar(anchor), 9, NumSlots))}
    \cup {CalOutcome("ok", <<Str(0, "garbage")>>)}
    \cup {CalOutcome(k, <<>>) : k \in {"http_error", "network_error", "timeout"}}

NoError == {}
CalApiError == {"Cal.com API", "error"}
CalApiTimeout == {"Cal.com API", "timeout"}
FetchError == {"fetch failed"}
RangeError == {"Invalid time value"}

Returned(slots) == [threw |-> FALSE, message |-> NoError, slots |-> slots]
Threw(message) == [threw |-> TRUE, message |-> message, slots |-> <<>>]

\* The end of a slot with the duration taken for seconds.
SlotEndInSeconds(start, duration) == Str(FromISO(start) + duration, "utc_ms")

\* new Date(new Date(start).getTime() + duration * 60 * 1000).toISOString()
SlotEnd(start, duration) == Str(FromISO(start) + duration * Minute, "utc_ms")

ToSlot(time, duration) == [start |-> time, end |-> SlotEnd(time, duration)]

\* queryCalAvailability: the slots, or the error it throws.
queryCalAvailability(outcome, duration) ==
    IF outcome.kind = "timeout" THEN Threw(CalApiTimeout)
    ELSE IF outcome.kind = "network_error" THEN Threw(FetchError)
    ELSE IF outcome.kind = "http_error" THEN Threw(CalApiError)
    ELSE IF \E i \in 1..Len(outcome.times) : ~IsValidISO(outcome.times[i])
         THEN Threw(RangeError)
    ELSE Returned([i \in 1..Len(outcome.times) |-> ToSlot(outcome.times[i], duration)])

\* ------------------------------------------------------------ expanding search

Window(label, start, end) == [label |-> label, start |-> start, end |-> end]

\* applyFlexibility taking the flexibility for days.
applyFlexibilityInDays(start, end, flexibility) ==
    [start |-> start - 24 * flexibility, end |-> end + 24 * flexibility]

\* applyFlexibility (flexibilityHours in seconds here)
applyFlexibility(start, end, flexibility) ==
    [start |-> start - flexibility, end |-> end + flexibility]

\* The attempts array with every window widened by the flexibility.
AttemptsAllFlexible(intent, flexibility) ==
    LET llmStart == FromISO(intent.startTime)
        llmEnd == FromISO(intent.endTime)
    IN << Window("requested_range", llmStart - flexibility, llmEnd + flexibility),
          Window("plus_24h", llmStart - 24 * Hour - flexibility,
                 llmEnd + 24 * Hour + flexibility),
          Window("plus_7d", llmStart - 7 * Day - flexibility,
                 llmEnd + 7 * Day + flexibility),
          Window("next_30d", llmStart - flexibility, llmStart + 30 * Day) >>

\* The attempts array of getGuaranteedSlots.
Attempts(intent, flexibility) ==
    LET llmStart == FromISO(intent.startTime)
        llmEnd == FromISO(intent.endTime)
        r == applyFlexibility(llmStart, llmEnd, flexibility)
    IN << Window("requested_range", r.start, r.end),
          Window("plus_24h", llmStart - 24 * Hour, llmEnd + 24 * Hour),
          Window("plus_7d", llmStart - 7 * Day, llmEnd + 7 * Day),
          Window("next_30d", llmStart, llmStart + 30 * Day) >>

SeqRange(s) == {s[i] : i \in 1..Len(s)}

KeepSlotByInstant(slot, rejectedTimes) ==
    ~(rejectedTimes.defined /\ \E r \in SeqRange(rejectedTimes.list) :
          IsValidISO(r) /\ FromISO(r) = FromISO(slot.start))

KeepSlotFarFromRejected(slot, rejectedTimes) ==
    ~(rejectedTimes.defined /\ \E r \in SeqRange(rejectedTimes.list) :
          IsValidISO(r) /\ Abs(FromISO(r) - FromISO(slot.start)) < 30 * Minute)

\* slots.filter((slot) => !rejectedTimes?.includes(slot.start)): by string.
KeepSlot(slot, rejectedTimes) ==
    ~(rejectedTimes.defined /\ slot.start \in SeqRange(rejectedTimes.list))

FilterRejected(slots, rejectedTimes) ==
    SelectSeq(slots, LAMBDA slot : KeepSlot(slot, rejectedTimes))

\* if (filtered.length > 0)
FoundSlots(filtered) == Len(filtered) > 0

NeverBreaks == FALSE

\* break, in the branch of found slots.
LoopBreaks == TRUE

CatchSkipped == FALSE

\* catch (error) { console.error(...) }: the error of a query ends the
\* attempt, and the loop goes on.
CatchContinues == TRUE

KeepsEmptyResult(allSlots) == FALSE

\* if (allSlots.length === 0) throw
NothingFound(allSlots) == Len(allSlots) = 0

\* ------------------------------------------------------------ categorisation

InIntentWindowHalfOpen(slotStart, llmStart, llmEnd) ==
    slotStart >= llmStart /\ slotStart < llmEnd

\* slotStart >= llmStart && slotStart <= llmEnd
InIntentWindow(slotStart, llmStart, llmEnd) == slotStart >= llmStart /\ slotStart <= llmEnd

Available(allSlots, intent) ==
    SelectSeq(allSlots, LAMBDA slot :
        InIntentWindow(FromISO(slot.start), FromISO(intent.startTime), FromISO(intent.endTime)))

\* !available.some((a) => a.start === slot.start): by string.
NotAvailable(slot, availableStarts) == slot.start \notin availableStarts

Reason(text, n) == [text |-> text, n |-> n]

calculateReasonInclusive(diff) ==
    IF Abs(diff) <= 3 * Hour THEN Reason("Very close to requested time", 0)
    ELSE IF diff > 0 /\ diff < 24 * Hour THEN Reason("Same day, later time", 0)
    ELSE IF diff < 0 /\ diff > 0 - 24 * Hour THEN Reason("Same day, earlier time", 0)
    ELSE IF diff > 0 THEN Reason("days later", diff \div (24 * Hour))
    ELSE Reason("days earlier", Abs(diff) \div (24 * Hour))

\* calculateReason on diff = slotStart - requestedStart (in seconds; the code
\* reads it in hours).
calculateReason(diff) ==
    IF Abs(diff) < 3 * Hour THEN Reason("Very close to requested time", 0)
    ELSE IF diff > 0 /\ diff < 24 * Hour THEN Reason("Same day, later time", 0)
    ELSE IF diff < 0 /\ diff > 0 - 24 * Hour THEN Reason("Same day, earlier time", 0)
    ELSE IF diff > 0 THEN Reason("days later", diff \div (24 * Hour))
    ELSE Reason("days earlier", Abs(diff) \div (24 * Hour))

\* The map step; distanceSeconds is distanceMinutes in seconds (times 60).
ToProposed(slot, llmStart) ==
    [start |-> slot.start, end |-> slot.end,
     distanceSeconds |-> Abs(FromISO(slot.start) - llmStart),
     reason |-> calculateReason(FromISO(slot.start) - llmStart)]

\* (a, b) => a.distanceMinutes - b.distanceMinutes: a goes before b iff negative.
Before(a, b) == a.distanceSeconds < b.distanceSeconds

\* Array.prototype.sort: stable; x is put after every element it is not before.
RECURSIVE InsertSorted(_, _)
InsertSorted(x, sorted) ==
    IF sorted = <<>> THEN <<x>>
    ELSE IF Before(x, sorted[Len(sorted)])
         THEN Append(InsertSorted(x, SubSeq(sorted, 1, Len(sorted) - 1)), sorted[Len(sorted)])
         ELSE Append(sorted, x)

RECURSIVE SortUpTo(_, _)
SortUpTo(s, n) == IF n = 0 THEN <<>> ELSE InsertSorted(s[n], SortUpTo(s, n - 1))

SortByDistance(s) == SortUpTo(s, Len(s))

MaxProposed == 10

\* .slice(0, 10)
Slice(s) == SubSeq(s, 1, IF Len(s) < MaxProposed THEN Len(s) ELSE MaxProposed)

Candidates(allSlots, available) ==
    LET availableStarts == {available[i].start : i \in 1..Len(available)}
    IN SelectSeq(allSlots, LAMBDA slot : NotAvailable(slot, availableStarts))

ProposedSliceFirst(allSlots, available, intent) ==
    LET rest == Candidates(allSlots, available)
        mapped == [i \in 1..Len(rest) |-> ToProposed(rest[i], FromISO(intent.startTime))]
    IN SortByDistance(Slice(mapped))

\* filter, map, sort, slice
Proposed(allSlots, available, intent) ==
    LET rest == Candidates(allSlots, available)
        mapped == [i \in 1..Len(rest) |-> ToProposed(rest[i], FromISO(intent.startTime))]
    IN Slice(SortByDistance(mapped))

\* ------------------------------------------------------------ the handler

NoAvailabilityFound == {"No availability found"}

\* A response of the handler: its error code ("OK" for a success), its HTTP
\* status, and of a success metadata.searchRange and which fields of
\* metadata.timings are present.
NoRange == [start |-> 0, end |-> 0]

Timings(llmMs, calApiMs, totalMs) ==
    [llmMs |-> llmMs, calApiMs |-> calApiMs, totalMs |-> totalMs]

NoTimings == Timings(FALSE, FALSE, FALSE)

Response(code, status) ==
    [code |-> code, status |-> status, searchRange |-> NoRange, timings |-> NoTimings]

NoResponse == Response("none", 0)

\* jsonResponse(result)
SuccessResponse == Response("OK", 200)

ErrorResponseGenericFirst(message) ==
    IF "Cal.com API" \in message THEN Response("CAL_API_ERROR", 503)
    ELSE IF "LLM" \in message THEN Response("PARSING_ERROR", 400)
    ELSE Response("PROCESSING_ERROR", 500)

\* The catch block of handleCheckAvailability, on the thrown error's message.
ErrorResponse(message) ==
    IF "Cal.com API" \in message THEN Response("CAL_API_ERROR", 503)
    ELSE IF "No availability found" \in message THEN Response("NO_AVAILABILITY", 200)
    ELSE IF "LLM" \in message THEN Response("PARSING_ERROR", 400)
    ELSE Response("PROCESSING_ERROR", 500)

\* The result of checkAvailability with the Intent's own range reported.
checkAvailabilityResultOfIntent(intent, flexibility) ==
    [SuccessResponse EXCEPT
        !.searchRange = [start |-> FromISO(intent.startTime),
                         end |-> FromISO(intent.endTime)],
        !.timings = Timings(intent.method = "llm", TRUE, TRUE)]

\* The result of checkAvailability with llmMs reported whatever the method.
checkAvailabilityResultWithLlmMs(intent, flexibility) ==
    [SuccessResponse EXCEPT
        !.searchRange = applyFlexibility(FromISO(intent.startTime),
                                         FromISO(intent.endTime), flexibility),
        !.timings = Timings(TRUE, TRUE, TRUE)]

\* The result checkAvailability returns, answered with jsonResponse:
\* metadata.searchRange is applyFlexibility of the Intent; of
\* metadata.timings, llmMs is undefined (left out of the JSON) unless the
\* method is 'llm', calApiMs and totalMs are numbers.
checkAvailabilityResult(intent, flexibility) ==
    [SuccessResponse EXCEPT
        !.searchRange = applyFlexibility(FromISO(intent.startTime),
                                         FromISO(intent.endTime), flexibility),
        !.timings = Timings(intent.method = "llm", TRUE, TRUE)]

\* ------------------------------------------------------------ request validation

\* A field of a JSON object: absent (undefined when read), or present with a
\* value.  Values are numbers: a timezone is its index in US_TIMEZONES (0: a
\* name not in the list), a string its length, an array its length.
Undefined == [present |-> FALSE, value |-> 0]
Field(v) == [present |-> TRUE, value |-> v]

\* US_TIMEZONES, by index.
USTimezones == 1..7

\* The keys of AvailabilityRequestSchema that the engine could use
\* (conversationHistory is never read).
SchemaKeys ==
    {"timeZone", "userMessage", "flexibilityHours", "systemPrompt", "rejectedTimes",
     "duration"}

\* The fields checkAvailability reads from the request it is given.
ReadFields ==
    {"userQuery", "timezone", "rejectedTimes", "systemPrompt", "flexibilityHours",
     "calendarId", "duration"}

BodyKeys == SchemaKeys \cup ReadFields

\* Request bodies: the documented names (timezone, userQuery, calendarId) and
\* the schema's names (timeZone, userMessage), each present or not.
Bodies ==
    { [timezone |-> tz, timeZone |-> tZ, userQuery |-> uq, userMessage |-> um,
       calendarId |-> cal, flexibilityHours |-> fl, duration |-> du,
       rejectedTimes |-> rj, systemPrompt |-> Undefined] :
        tz \in {Undefined, Field(2), Field(0)},
        tZ \in {Undefined, Field(2), Field(0)},
        uq \in {Undefined, Field(20), Field(501)},
        um \in {Undefined, Field(20), Field(0)},
        cal \in {Undefined, Field(7)},
        fl \in {Undefined, Field(0), Field(25)},
        du \in {Undefined, Field(45)},
        rj \in {Undefined, Field(51)} }

\* AvailabilityRequestSchema.parse(body) does not throw.
SchemaAccepts(body) ==
    /\ body.timeZone.present /\ body.timeZone.value \in USTimezones
    /\ body.userMessage.present /\ body.userMessage.value \in 1..2000
    /\ body.flexibilityHours.present => body.flexibilityHours.value \in 0..24
    /\ body.systemPrompt.present => body.systemPrompt.value <= 10000
    /\ body.rejectedTimes.present => body.rejectedTimes.value <= 50
    /\ body.duration.present => body.duration.value \in 15..180

\* .default(2) and .default(30)
SchemaDefault(key) ==
    IF key = "flexibilityHours" THEN Field(2)
    ELSE IF key = "duration" THEN Field(30)
    ELSE Undefined

\* The object AvailabilityRequestSchema.parse returns: the schema's keys, with
\* defaults filled in; z.object strips every other key of the body.
SchemaParse(body) ==
    [key \in BodyKeys |->
        IF key \in SchemaKeys
          THEN IF body[key].present THEN body[key] ELSE SchemaDefault(key)
          ELSE Undefined]

NoBody == [key \in BodyKeys |-> Undefined]

\* request.userQuery, request.timezone, ... as checkAvailability reads them.
EngineReads(request) == [key \in ReadFields |-> request[key]]

NoReads == [key \in ReadFields |-> Undefined]

\* ------------------------------------------------------------ one request

VARIABLES
    variant,            \* which fallbackParse source is built in
    sysOff,             \* the runtime's zone
    now,                \* DateTime.now() read by parseUserQuery
    timezone, userQuery, rejectedTimes, flexibilityHours, duration,  \* the request
    pc,                 \* "start", "llm" (awaiting the model), "parsed" (parseUserQuery
                        \* has returned), "cal" (awaiting the slot source), "done"
    llmCalls,           \* calls made to the language model
    llmOut,             \* what the model's call ended with, while parseUserQuery runs
    parseResult,        \* the Intent, once parsed
    issued,             \* the windows queried so far, in order
    lastOutcome,        \* how the last completed query ended: "none", "slots",
                        \* "empty", "threw"
    returned,           \* the slots the last completed query returned
    allSlots, available, proposed,
    response,           \* what handleCheckAvailability answers
    body,               \* the JSON body handleCheckAvailability received
    validatedRequest,   \* what AvailabilityRequestSchema.parse returned
    reads,              \* the request fields as checkAvailability read them
    elapsed,            \* seconds since getGuaranteedSlots was entered
    inFlight,           \* calls of queryCalAvailability not yet settled: the
                        \* attempt's number and when it was issued
    phase,              \* of the call in flight: "fetch" (awaiting fetch), "body"
                        \* (awaiting the response's body); "idle" with none
    timers,             \* setTimeout timers that are set: the attempt's number and
                        \* when it fires
    httpRequest,        \* the Request the worker's fetch was called with
    env                 \* which secrets the deployment has

vars == <<variant, sysOff, now, timezone, userQuery, rejectedTimes, flexibilityHours,
          duration, pc, llmCalls, llmOut, parseResult, issued, lastOutcome, returned,
          allSlots, available, proposed, response, body, validatedRequest, reads,
          elapsed, inFlight, phase, timers, httpRequest, env>>

\* The timing of the slot-source queries; Spec takes each query as one step
\* and leaves it out.
timing == <<elapsed, inFlight, phase, timers>>

Untimed == elapsed = 0 /\ inFlight = {} /\ phase = "idle" /\ timers = {}

\* The handler's side of the request, left alone by the engine's steps.
call == <<httpRequest, env>>

boundary == <<body, validatedRequest, reads, call>>

\* A Request: its method, the path of its URL, whether its body is JSON, and
\* the value the JSON stands for.
Request(method, path, json, payload) ==
    [method |-> method, path |-> path, json |-> json, payload |-> payload]

\* Env: whether ANTHROPIC_API_KEY and CAL_API_KEY are set (to a non-empty
\* string).
Env(anthropic, cal) == [ANTHROPIC_API_KEY |-> anthropic, CAL_API_KEY |-> cal]

\* The handler has let the request through to the engine: a POST to
\* /check-availability with both keys set.
Accepted ==
    /\ httpRequest = Request("POST", "/check-availability", TRUE, NoBody)
    /\ env = Env(TRUE, TRUE)

inputs == <<variant, sysOff, now, timezone, userQuery, rejectedTimes, flexibilityHours,
            duration, boundary>>

\* rejectedTimes of the runs: absent; empty; the calendar's first opening as
\* the slot source writes it, with a time 20 minutes after the anchor written
\* without milliseconds; an unreadable entry with the anchor itself; times 30
\* minutes before, 10 minutes, one hour and three hours after the anchor.
RejectedInputs(anchor) ==
    { NoRejected,
      Rejected(<<>>),
      Rejected(<<SlotTime(anchor, 1), Str(anchor + 20 * Minute, "offset")>>),
      Rejected(<<Str(0, "garbage"), Str(anchor, "offset")>>),
      Rejected(<<Str(anchor - 30 * Minute, "offset"), Str(anchor + 10 * Minute, "offset"),
                 Str(anchor + Hour, "offset"), Str(anchor + 3 * Hour, "offset")>>) }

FlexibilityInputs == {0, 2}

DefaultDuration == 30

\* The engine before it is entered.
EngineIdle ==
    /\ pc = "start"
    /\ llmCalls = 0
    /\ llmOut = NoLLMOutput
    /\ parseResult = NoIntent
    /\ issued = <<>>
    /\ lastOutcome = "none"
    /\ returned = <<>>
    /\ allSlots = <<>>
    /\ available = <<>>
    /\ proposed = <<>>
    /\ response = NoResponse

\* checkAvailability called with a request of the engine's field names.
Init ==
    /\ variant \in Variants
    /\ sysOff \in SystemOffsets
    /\ now \in Nows
    /\ timezone \in Timezones
    /\ userQuery \in Queries
    /\ rejectedTimes \in RejectedInputs(LLMStart(now, timezone))
    /\ flexibilityHours \in FlexibilityInputs
    /\ duration = DefaultDuration
    /\ EngineIdle
    /\ body = NoBody /\ validatedRequest = NoBody /\ reads = NoReads
    /\ Accepted
    /\ Untimed

\* checkAvailability is entered and calls parseUserQuery.  Building the
\* prompt throws for an array of rejected times: the parser returns null with
\* no call made, and the fallback runs.  Otherwise the model is called.
Start ==
    /\ pc = "start"
    /\ IF PromptThrows(rejectedTimes)
         THEN /\ parseResult' = parseUserQuery(LLMParse(rejectedTimes, NoLLMOutput),
                                    variant, userQuery, now, timezone, sysOff, rejectedTimes)
              /\ pc' = "parsed"
              /\ UNCHANGED llmCalls
         ELSE /\ pc' = "llm"
              /\ llmCalls' = llmCalls + 1
              /\ UNCHANGED parseResult
    /\ UNCHANGED <<inputs, llmOut, issued, lastOutcome, returned, allSlots, available,
                   proposed, response, timing>>

\* The model's call ends with out, and the fallback is anchored on a clock
\* read after the call, a minute later.
LLMCompleteReadsClockAgain(out) ==
    /\ pc = "llm"
    /\ llmOut' = out
    /\ parseResult' = parseUserQuery(LLMParse(rejectedTimes, out),
                          variant, userQuery, now + Minute, timezone, sysOff, rejectedTimes)
    /\ pc' = "parsed"
    /\ UNCHANGED <<inputs, llmCalls, issued, lastOutcome, returned, allSlots, available,
                   proposed, response, timing>>

\* The model's call ends with out, and parseUserQuery returns.
LLMComplete(out) ==
    /\ pc = "llm"
    /\ llmOut' = out
    /\ parseResult' = parseUserQuery(LLMParse(rejectedTimes, out),
                          variant, userQuery, now, timezone, sysOff, rejectedTimes)
    /\ pc' = "parsed"
    /\ UNCHANGED <<inputs, llmCalls, issued, lastOutcome, returned, allSlots, available,
                   proposed, response, timing>>

\* checkAvailability resumes and enters getGuaranteedSlots with the Intent:
\* the first query goes out.
BeginSearch ==
    /\ pc = "parsed"
    /\ llmOut' = NoLLMOutput
    /\ issued' = <<Attempts(parseResult, flexibilityHours * Hour)[1]>>
    /\ pc' = "cal"
    /\ UNCHANGED <<inputs, llmCalls, parseResult, lastOutcome, returned, allSlots,
                   available, proposed, response>>

\* The query in flight ends with outcome.  An error is caught and counts as
\* no slots.  With a slot left after filtering the loop breaks; otherwise the
\* next window is queried.  After the loop getGuaranteedSlots throws when
\* allSlots is empty, and else categorises; the handler answers.
CalComplete(outcome) ==
    /\ pc = "cal"
    /\ LET got == queryCalAvailability(outcome, duration)
           filtered == FilterRejected(got.slots, rejectedTimes)
           attempts == Attempts(parseResult, flexibilityHours * Hour)
           found == ~got.threw /\ FoundSlots(filtered)
       IN /\ returned' = got.slots
          /\ lastOutcome' = IF got.threw THEN "threw"
                            ELSE IF found THEN "slots" ELSE "empty"
          /\ allSlots' = IF found THEN filtered ELSE allSlots
          /\ IF got.threw /\ ~CatchContinues
               THEN /\ pc' = "done"
                    /\ response' = ErrorResponse(got.message)
                    /\ UNCHANGED <<issued, available, proposed>>
               ELSE IF (found /\ LoopBreaks) \/ Len(issued) = Len(attempts)
               THEN /\ pc' = "done"
                    /\ UNCHANGED issued
                    /\ IF NothingFound(allSlots')
                         THEN /\ response' = ErrorResponse(NoAvailabilityFound)
                              /\ UNCHANGED <<available, proposed>>
                         ELSE /\ available' = Available(allSlots', parseResult)
                              /\ proposed' = Proposed(allSlots', available', parseResult)
                              /\ response' = checkAvailabilityResult(parseResult,
                                                  flexibilityHours * Hour)
               ELSE /\ issued' = Append(issued, attempts[Len(issued) + 1])
                    /\ UNCHANGED <<pc, available, proposed, response>>
    /\ UNCHANGED <<inputs, llmCalls, llmOut, parseResult>>

Next ==
    \/ Start
    \/ BeginSearch /\ UNCHANGED timing
    \/ \E out \in LLMOutcomes(now, timezone) : LLMComplete(out)
    \/ \E outcome \in CalOutcomes(LLMStart(now, timezone)) :
          CalComplete(outcome) /\ UNCHANGED timing

Spec == Init /\ [][Next]_vars

\* ------------------------------------------------------------ the heuristic parser alone

\* parseUserQuery with the primary parser giving nothing, over queries that
\* combine the phrases of fallbackParse: every set of them, with a day word,
\* with and without a clock time.
Phrases == {"lunch", "morning", "afternoon", "evening", "same time"}

HeuristicQueries ==
    { Query(words, date, clock, 0) :
        words \in SUBSET Phrases, date \in {"today", "tomorrow"},
        clock \in {NoClock, Clock(15, 0, 0)} }

InitHeuristic ==
    /\ variant \in Variants
    /\ sysOff \in SystemOffsets
    /\ now \in Nows
    /\ timezone \in Timezones
    /\ userQuery \in HeuristicQueries
    /\ rejectedTimes \in {NoRejected, Rejected(<<>>)}
    /\ flexibilityHours = 0
    /\ duration = DefaultDuration
    /\ EngineIdle
    /\ body = NoBody /\ validatedRequest = NoBody /\ reads = NoReads
    /\ Accepted
    /\ Untimed

NextHeuristic ==
    \/ Start
    \/ \E kind \in {"timeout", "api_error", "no_text"} : LLMComplete(LLMFailure(kind))

SpecHeuristic == InitHeuristic /\ [][NextHeuristic]_vars

\* ------------------------------------------------------------ the request at the handler

\* handleCheckAvailability from the parsed JSON body to the call of
\* checkAvailability: what the engine is handed.  pc: "body", "validated",
\* "engine" (checkAvailability has read the request), "done" (answered).
engine == <<variant, sysOff, now, timezone, userQuery, rejectedTimes, flexibilityHours,
            duration, llmCalls, llmOut, parseResult, issued, lastOutcome, returned,
            allSlots, available, proposed, timing>>

InitRequest ==
    /\ variant = "components" /\ sysOff = 0 /\ now = 0 /\ timezone = 0
    /\ userQuery = Query({}, "none", NoClock, 0)
    /\ rejectedTimes = NoRejected
    /\ flexibilityHours = 0 /\ duration = DefaultDuration
    /\ llmCalls = 0
    /\ llmOut = NoLLMOutput
    /\ parseResult = NoIntent
    /\ issued = <<>>
    /\ lastOutcome = "none"
    /\ returned = <<>>
    /\ allSlots = <<>>
    /\ available = <<>>
    /\ proposed = <<>>
    /\ response = NoResponse
    /\ pc = "body"
    /\ body \in Bodies
    /\ validatedRequest = NoBody
    /\ reads = NoReads
    /\ Accepted
    /\ Untimed

\* validatedRequest = AvailabilityRequestSchema.parse(body), or the
\* VALIDATION_ERROR answer when it throws a ZodError.
ValidateRequest ==
    /\ pc = "body"
    /\ IF SchemaAccepts(body)
         THEN /\ validatedRequest' = SchemaParse(body)
              /\ pc' = "validated"
              /\ UNCHANGED response
         ELSE /\ response' = Response("VALIDATION_ERROR", 400)
              /\ pc' = "done"
              /\ UNCHANGED validatedRequest
    /\ UNCHANGED <<engine, body, reads, call>>

\* The environment check that looks at one key only.
KeysConfiguredAnthropicOnly == env.ANTHROPIC_API_KEY

\* Neither `!env.ANTHROPIC_API_KEY` nor `!env.CAL_API_KEY`.
KeysConfigured == env.ANTHROPIC_API_KEY /\ env.CAL_API_KEY

\* A key is missing: the CONFIG_ERROR answer.
ConfigError ==
    /\ pc = "validated"
    /\ ~KeysConfigured
    /\ response' = Response("CONFIG_ERROR", 500)
    /\ pc' = "done"
    /\ UNCHANGED <<engine, body, validatedRequest, reads, call>>

\* checkAvailability(validatedRequest, env) reads the request's fields.
CallCheckAvailability ==
    /\ pc = "validated"
    /\ KeysConfigured
    /\ reads' = EngineReads(validatedRequest)
    /\ pc' = "engine"
    /\ UNCHANGED <<engine, body, validatedRequest, response, call>>

NextRequest == ValidateRequest \/ CallCheckAvailability

SpecRequest == InitRequest /\ [][NextRequest]_vars

\* ------------------------------------------------------------ the worker's entry

\* The worker from fetch(request, env) to the first call checkAvailability
\* makes.  pc: "fetch" (fetch is entered), "json" (handleCheckAvailability
\* awaits request.json()), "body", "validated", "engine", "start", "llm" (as
\* above), "done" (answered).
Methods == {"POST", "GET", "OPTIONS"}
Paths == {"/check-availability", "/", "/slots"}

\* Bodies with the schema's names: the zone, the message and the flexibility
\* present or not, in and out of range.
HandlerBodies ==
    {b \in Bodies : /\ b.timezone = Undefined /\ b.userQuery = Undefined
                    /\ b.calendarId = Field(7) /\ b.duration = Undefined
                    /\ b.rejectedTimes = Undefined}

InitHandler ==
    /\ variant = "components" /\ sysOff = 0 /\ now = 0 /\ timezone = 0
    /\ userQuery = Query({}, "none", NoClock, 0)
    /\ rejectedTimes = NoRejected
    /\ flexibilityHours = 0 /\ duration = DefaultDuration
    /\ llmCalls = 0
    /\ llmOut = NoLLMOutput
    /\ parseResult = NoIntent
    /\ issued = <<>>
    /\ lastOutcome = "none"
    /\ returned = <<>>
    /\ allSlots = <<>>
    /\ available = <<>>
    /\ proposed = <<>>
    /\ response = NoResponse
    /\ pc = "fetch"
    /\ body = NoBody
    /\ validatedRequest = NoBody
    /\ reads = NoReads
    /\ httpRequest \in {Request(m, p, j, b) :
                          m \in Methods, p \in Paths, j \in BOOLEAN, b \in HandlerBodies}
    /\ env \in {Env(a, c) : a \in BOOLEAN, c \in BOOLEAN}
    /\ Untimed

\* The worker's fetch: the preflight answer, the method check, the routes.
fetch ==
    /\ pc = "fetch"
    /\ IF httpRequest.method = "OPTIONS"
         THEN response' = Response("CORS_PREFLIGHT", 204) /\ pc' = "done"
         ELSE IF httpRequest.method # "POST"
         THEN response' = Response("METHOD_NOT_ALLOWED", 405) /\ pc' = "done"
         ELSE IF httpRequest.path = "/check-availability"
         THEN pc' = "json" /\ UNCHANGED response
         ELSE IF httpRequest.path = "/"
         THEN response' = Response("SERVICE_INFO", 200) /\ pc' = "done"
         ELSE response' = Response("NOT_FOUND", 404) /\ pc' = "done"
    /\ UNCHANGED <<engine, body, validatedRequest, reads, call>>

\* body = await request.json(), or the INVALID_JSON answer when it rejects.
ParseBody ==
    /\ pc = "json"
    /\ IF httpRequest.json
         THEN body' = httpRequest.payload /\ pc' = "body" /\ UNCHANGED response
         ELSE response' = Response("INVALID_JSON", 400) /\ pc' = "done" /\ UNCHANGED body
    /\ UNCHANGED <<engine, validatedRequest, reads, call>>

\* checkAvailability calls parseUserQuery.
EnterParse ==
    /\ pc = "engine"
    /\ pc' = "start"
    /\ UNCHANGED <<engine, body, validatedRequest, reads, response, call>>

NextHandler ==
    \/ fetch
    \/ ParseBody
    \/ ValidateRequest
    \/ ConfigError
    \/ CallCheckAvailability
    \/ EnterParse
    \/ Start

SpecHandler == InitHandler /\ [][NextHandler]_vars

\* ------------------------------------------------------------ the search in time

\* getGuaranteedSlots with the time its queries take.  A call of
\* queryCalAvailability sets a timer, awaits fetch, clears the timer when
\* fetch settles, then awaits the body of the response.

\* setTimeout(() => controller.abort(), 5000), in seconds.
CalTimeout == 5

\* The time watched.
MaxElapsed == 12

Call(attempt, at) == [attempt |-> attempt, issuedAt |-> at]
Timer(attempt, at) == [attempt |-> attempt, firesAt |-> at + CalTimeout]

\* Everything but the timing.
search == <<inputs, pc, llmCalls, llmOut, parseResult, issued, lastOutcome, returned,
            allSlots, available, proposed, response>>

\* Bodies the slot source answers with: no opening, two openings, and the
\* body of a non-OK response.
TimedOutcomes(anchor) ==
    { CalOutcome("ok", <<>>), CalOutcome("ok", SubSeq(Calendar(anchor), 1, 2)),
      CalOutcome("http_error", <<>>) }

\* parseUserQuery has returned the heuristic Intent of "tomorrow around lunch".
InitTimers ==
    /\ variant = "instant" /\ sysOff \in SystemOffsets /\ now \in Nows
    /\ timezone \in Timezones
    /\ userQuery = Query({"lunch"}, "tomorrow", NoClock, 0)
    /\ rejectedTimes = NoRejected
    /\ flexibilityHours \in FlexibilityInputs
    /\ duration = DefaultDuration
    /\ pc = "parsed"
    /\ llmCalls = 1
    /\ llmOut = LLMFailure("timeout")
    /\ parseResult = parseUserQuery(LLMParse(rejectedTimes, llmOut), variant, userQuery,
                                     now, timezone, sysOff, rejectedTimes)
    /\ issued = <<>>
    /\ lastOutcome = "none"
    /\ returned = <<>>
    /\ allSlots = <<>>
    /\ available = <<>>
    /\ proposed = <<>>
    /\ response = NoResponse
    /\ body = NoBody /\ validatedRequest = NoBody /\ reads = NoReads
    /\ Accepted
    /\ Untimed

\* The call in flight has settled (its timer is cleared on either path); when
\* the loop goes on, the next call is made at once and sets its own timer.
SettleTiming ==
    /\ elapsed' = elapsed
    /\ IF Len(issued') > Len(issued)
         THEN /\ inFlight' = {Call(Len(issued'), elapsed)}
              /\ phase' = "fetch"
              /\ timers' = {t \in timers : t.attempt # Len(issued)}
                               \cup {Timer(Len(issued'), elapsed)}
         ELSE /\ inFlight' = {}
              /\ phase' = "idle"
              /\ timers' = {t \in timers : t.attempt # Len(issued)}

\* The loop is entered: the first call.
IssueFirst ==
    /\ BeginSearch
    /\ elapsed' = elapsed
    /\ inFlight' = {Call(1, elapsed)}
    /\ phase' = "fetch"
    /\ timers' = {Timer(1, elapsed)}

\* A second passes; a timer that is due fires before the next one passes.
Tick ==
    /\ pc = "cal"
    /\ elapsed < MaxElapsed
    /\ \A t \in timers : elapsed < t.firesAt
    /\ elapsed' = elapsed + 1
    /\ UNCHANGED <<search, inFlight, phase, timers>>

\* A timer fires: controller.abort() rejects the fetch it belongs to with an
\* AbortError, rethrown as 'Cal.com API timeout'.
TimerFires ==
    /\ \E t \in timers : t.firesAt <= elapsed /\ t.attempt = Len(issued)
    /\ phase = "fetch"
    /\ CalComplete(CalOutcome("timeout", <<>>))
    /\ SettleTiming

\* fetch rejects (no connection).
FetchRejects ==
    /\ phase = "fetch"
    /\ CalComplete(CalOutcome("network_error", <<>>))
    /\ SettleTiming

\* fetch resolves with the response's status and headers: clearTimeout, and
\* the body is awaited (response.text() or response.json()).
HeadersArrive ==
    /\ pc = "cal" /\ phase = "fetch"
    /\ timers' = {t \in timers : t.attempt # Len(issued)}
    /\ phase' = "body"
    /\ UNCHANGED <<search, elapsed, inFlight>>

\* The body has been read: the call returns its slots, or throws for a
\* non-OK response.
BodyRead(outcome) ==
    /\ phase = "body"
    /\ CalComplete(outcome)
    /\ SettleTiming

NextTimers ==
    \/ IssueFirst
    \/ Tick
    \/ TimerFires
    \/ FetchRejects
    \/ HeadersArrive
    \/ \E outcome \in TimedOutcomes(LLMStart(now, timezone)) : BodyRead(outcome)

SpecTimers == InitTimers /\ [][NextTimers]_vars

\* ------------------------------------------------------------ properties

Succeeded == pc = "done" /\ response.code = "OK"

Starts(slots) == {slots[i].start : i \in 1..Len(slots)}

SearchLabels == <<"requested_range", "plus_24h", "plus_7d", "next_30d">>

\* C1: the windows are queried in the order requested_range, plus_24h,
\* plus_7d, next_30d, and the step in which a query returns a slot that
\* survives the rejected-time filter issues no query, ends the request, and
\* nothing is issued after it.
C1_OrderedAndStopsAtFirstHit ==
    [][ /\ Len(issued') <= Len(SearchLabels)
        /\ \A k \in 1..Len(issued') : issued'[k].label = SearchLabels[k]
        /\ (lastOutcome' = "slots") => (issued' = issued /\ pc' = "done")
        /\ (lastOutcome = "slots") => (issued' = issued) ]_vars

\* A search that found slots on its second attempt, after an empty first.
C1_Witness ==
    /\ Succeeded /\ lastOutcome = "slots"
    /\ Len(issued) = 2 /\ issued[2].label = "plus_24h"

\* C2: a success result has at least one slot in available or proposed.
C2_SuccessIsNonEmpty ==
    Succeeded => Len(available) + Len(proposed) >= 1

\* A success whose slots are all alternatives.
C2_Witness ==
    /\ Succeeded
    /\ Len(available) = 0 /\ Len(proposed) >= 1

\* C3: when none of the four attempts leaves a slot, the request ends after
\* exactly four queries with NO_AVAILABILITY and status 200, and never with
\* PROCESSING_ERROR or INTERNAL_ERROR; there is no fifth query.
C3_ExhaustedIsNoAvailability ==
    /\ Len(issued) <= 4
    /\ (pc = "done" /\ lastOutcome # "slots") =>
          /\ Len(issued) = 4
          /\ response = Response("NO_AVAILABILITY", 200)
    /\ response.code \notin {"PROCESSING_ERROR", "INTERNAL_ERROR"}
    /\ response.status # 500

\* The search exhausted with the fourth query failing.
C3_Witness ==
    /\ pc = "done" /\ Len(issued) = 4
    /\ response.code = "NO_AVAILABILITY"
    /\ lastOutcome = "threw"

\* The primary output is accepted: a text block holding JSON of the Intent
\* shape, confidence at least 0.5, both timestamps dates with an explicit
\* offset, and the end after the start.
PrimaryAccepted(out) ==
    /\ out.kind = "text" /\ out.json
    /\ out.startTime.fmt \in {"offset", "offset_ms", "utc_ms"}
    /\ out.endTime.fmt \in {"offset", "offset_ms", "utc_ms"}
    /\ out.interpretation \in 10..200
    /\ out.confidence \in 50..100
    /\ out.endTime.t > out.startTime.t

GrammarFinds(q) == q.date # "none" \/ q.clock.given

\* C4: parseUserQuery returns an Intent for every outcome of the primary
\* call and of the date grammar, and the first stage that succeeds, in the
\* order primary, heuristic, default, gives the result.
C4_AlwaysAnIntentFirstStageWins ==
    pc = "parsed" =>
        /\ IsValidISO(parseResult.startTime) /\ IsValidISO(parseResult.endTime)
        /\ parseResult.confidence \in 0..100
        /\ parseResult.method =
              IF llmCalls = 1 /\ PrimaryAccepted(llmOut) THEN "llm"
              ELSE IF GrammarFinds(userQuery) THEN "fallback_chrono"
              ELSE "fallback_default"
        /\ parseResult.method = "llm" =>
              /\ parseResult.startTime = llmOut.startTime
              /\ parseResult.endTime = llmOut.endTime

\* The primary call timed out and the grammar found nothing: the default.
C4_Witness ==
    /\ pc = "parsed" /\ llmOut.kind = "timeout"
    /\ ~GrammarFinds(userQuery)
    /\ parseResult.method = "fallback_default"

HasIntent == pc \in {"parsed", "cal", "done"}

IntentStart == FromISO(parseResult.startTime)
IntentEnd == FromISO(parseResult.endTime)

\* C5 (as claimed): every Intent handed to the search ends after it starts,
\* whichever stage produced it.
C5_EndAfterStart ==
    HasIntent => IntentEnd > IntentStart

\* C6: the method is 'llm' only for an accepted primary output (JSON of the
\* Intent shape, confidence >= 0.5, timestamps valid with offsets, end after
\* start); an output with confidence below 0.5 never gives 'llm', and an
\* otherwise acceptable output with confidence exactly 0.5 does.
C6_PrimaryOnlyWhenAccepted ==
    pc = "parsed" =>
        /\ parseResult.method = "llm" => (llmCalls = 1 /\ PrimaryAccepted(llmOut))
        /\ (llmOut.kind = "text" /\ llmOut.confidence < 50) => parseResult.method # "llm"
        /\ (PrimaryAccepted(llmOut) /\ llmOut.confidence = 50) => parseResult.method = "llm"

\* The primary output with confidence exactly 0.5 was taken.
C6_Witness ==
    /\ pc = "parsed" /\ llmOut.kind = "text" /\ llmOut.confidence = 50
    /\ parseResult.method = "llm" /\ parseResult.confidence = 50

ElevenThirty == 11 * Hour + 30 * Minute

NoRejectedTimes == Len(rejectedTimes.list) = 0

\* C7 (as claimed): for a query containing "lunch" the Intent starts at 11:30
\* local time and ends two hours later, whatever the stage and the rejected
\* times.
C7_LunchAlwaysElevenThirty ==
    (pc = "parsed" /\ userQuery.lunch) =>
        /\ WallSecond(IntentStart, timezone) = ElevenThirty
        /\ IntentEnd = IntentStart + 2 * Hour

\* C7 (amended): for a query containing "lunch" and not "same time" that the
\* heuristic stage resolves, with no rejected times the Intent starts at 11:30
\* local time and ends two hours later; with rejected times it starts at 11:30
\* or 12:30 and ends one hour later.
C7_LunchInHeuristicStage ==
    (pc = "parsed" /\ userQuery.lunch /\ ~userQuery.sameTime
        /\ parseResult.method = "fallback_chrono") =>
        IF NoRejectedTimes
          THEN /\ WallSecond(IntentStart, timezone) = ElevenThirty
               /\ IntentEnd = IntentStart + 2 * Hour
          ELSE /\ WallSecond(IntentStart, timezone) \in {ElevenThirty, ElevenThirty + Hour}
               /\ IntentEnd = IntentStart + Hour

\* The heuristic stage resolved a lunch query after the primary call failed.
C7_Witness ==
    /\ pc = "parsed" /\ userQuery.lunch /\ ~userQuery.sameTime
    /\ llmOut.kind = "api_error" /\ parseResult.method = "fallback_chrono"
    /\ NoRejectedTimes
    /\ IntentEnd = IntentStart + 2 * Hour

\* The starts the succeeding attempt returned, less the rejected strings.
FoundStarts ==
    Starts(returned) \ (IF rejectedTimes.defined THEN SeqRange(rejectedTimes.list) ELSE {})

ResponseStarts == Starts(available) \cup Starts(proposed)

\* C8 (as claimed): on success available and proposed together hold every
\* slot the succeeding attempt returned, less the rejected-time matches.
C8_ResponseHoldsAllFound ==
    Succeeded => ResponseStarts = FoundStarts

\* C8 (amended): on success available and proposed hold only found,
\* non-rejected slots, and all of them when at most 10 lie outside the intent
\* window; beyond that exactly the excess over 10 is missing.
C8_ResponseHoldsAllFoundUpToCap ==
    Succeeded =>
        LET outside == Cardinality(FoundStarts \ Starts(available))
        IN /\ ResponseStarts \subseteq FoundStarts
           /\ Cardinality(FoundStarts \ ResponseStarts) =
                 IF outside > 10 THEN outside - 10 ELSE 0

\* A success that dropped a rejected slot and kept every other one, ten of
\* them as alternatives.
C8_Witness ==
    /\ Succeeded
    /\ Starts(returned) # FoundStarts
    /\ Len(proposed) = 10
    /\ ResponseStarts = FoundStarts

Distance(start) == Abs(FromISO(start) - IntentStart)

\* C9: on success proposed is in ascending order of distance, has at most 10
\* entries, and no found slot left out of both lists is closer to the intent
\* start than a proposed one.
C9_ProposedSortedCappedClosest ==
    Succeeded =>
        /\ Len(proposed) <= 10
        /\ \A i \in 1..Len(proposed) : \A j \in i..Len(proposed) :
              proposed[i].distanceSeconds <= proposed[j].distanceSeconds
        /\ \A s \in Starts(allSlots) \ ResponseStarts : \A i \in 1..Len(proposed) :
              Distance(s) >= proposed[i].distanceSeconds

\* Ten alternatives kept, others left out, and the order differs from the
\* order of the response.
C9_Witness ==
    /\ Succeeded
    /\ Len(proposed) = 10
    /\ Starts(allSlots) \ ResponseStarts # {}
    /\ \E i \in 1..Len(allSlots) : \E j \in (i + 1)..Len(allSlots) :
          /\ {allSlots[i].start, allSlots[j].start} \subseteq Starts(proposed)
          /\ Distance(allSlots[j].start) < Distance(allSlots[i].start)

\* C10: available is exactly the found slots starting within the intent
\* window, both ends included; proposed holds found slots only, none of
\* them in available.
C10_AvailableIsTheWindow ==
    Succeeded =>
        /\ Starts(available) =
              {s \in Starts(allSlots) : IntentStart <= FromISO(s) /\ FromISO(s) <= IntentEnd}
        /\ Starts(proposed) \subseteq Starts(allSlots)
        /\ Starts(proposed) \cap Starts(available) = {}

\* A slot starting exactly at the intent's end is available.
C10_Witness ==
    /\ Succeeded
    /\ \E s \in Starts(available) : FromISO(s) = IntentEnd
    /\ Len(proposed) > 0

RejectedStrings == IF rejectedTimes.defined THEN SeqRange(rejectedTimes.list) ELSE {}

\* C11: no slot of available or proposed starts with a string that is an
\* entry of rejectedTimes, and of the slots the succeeding query returned
\* exactly those whose start is identical to an entry are removed: a slot
\* near an entry, or at the same instant written differently, is kept.
C11_ExcludedByExactMatchOnly ==
    (pc = "done" /\ lastOutcome = "slots") =>
        /\ ResponseStarts \cap RejectedStrings = {}
        /\ \A s \in Starts(returned) : s \in Starts(allSlots) <=> s \notin RejectedStrings

\* A returned slot was removed as rejected, and the response holds a slot
\* less than 30 minutes from a rejected time.
C11_Witness ==
    /\ Succeeded
    /\ Starts(returned) \cap RejectedStrings # {}
    /\ \E s \in ResponseStarts : \E r \in RejectedStrings :
          IsValidISO(r) /\ Abs(FromISO(r) - FromISO(s)) < 30 * Minute

\* The start the fallback resolves for the request when no rejected times
\* are given.
ResolvedStart ==
    FromISO(fallbackParse(variant, userQuery, now, timezone, sysOff, NoRejected).startTime)

RejectedInstants == {FromISO(r) : r \in {x \in RejectedStrings : IsValidISO(x)}}

InFallbackStage == pc = "parsed" /\ parseResult.method \in {"fallback_chrono", "fallback_default"}

C13_FailedAttemptAdvances ==
    [][ /\ (pc = "cal" /\ lastOutcome' = "threw" /\ Len(issued) < 4) =>
              /\ pc' = "cal" /\ response' = NoResponse
              /\ allSlots' = <<>>
              /\ issued' = Append(issued, issued'[Len(issued) + 1])
              /\ issued'[Len(issued')].label = SearchLabels[Len(issued) + 1]
        /\ \A i \in 1..Len(issued') : \A j \in 1..Len(issued') :
              issued'[i].label = issued'[j].label => i = j ]_vars

\* The second query failed and the third window is being queried.
C13_Witness ==
    /\ pc = "cal" /\ lastOutcome = "threw"
    /\ Len(issued) = 3 /\ issued[3].label = "plus_7d"

TomorrowAroundLunch == Query({"lunch"}, "tomorrow", NoClock, 0)

\* C14 (as claimed): "tomorrow around lunch" with no rejected times, resolved
\* by the heuristic stage, gives 11:30 to 13:30 on the caller's wall clock on
\* the day after now's date in the caller's zone, with confidence at least
\* 0.5 and the heuristic method.
C14_TomorrowLunchInCallerZone ==
    (pc = "parsed" /\ userQuery = TomorrowAroundLunch /\ NoRejectedTimes
        /\ parseResult.method # "llm") =>
        /\ WallDay(IntentStart, timezone) = WallDay(now, timezone) + 1
        /\ WallSecond(IntentStart, timezone) = ElevenThirty
        /\ IntentEnd = IntentStart + 2 * Hour
        /\ parseResult.confidence >= 50
        /\ parseResult.method = "fallback_chrono"

\* C15 (as claimed): every success result has at least one proposed
\* alternative, also when every found slot starts inside the intent window.
C15_ProposedNeverEmpty ==
    Succeeded => Len(proposed) >= 1

\* C16 (as claimed): a search in which queries of the slot source failed and
\* no attempt gave a slot is answered with CAL_API_ERROR and status 503, not
\* with NO_AVAILABILITY.
C16_CalFailureIsReported ==
    (pc = "done" /\ lastOutcome = "threw") =>
        response = Response("CAL_API_ERROR", 503)

NoKeyword(q) == ~(q.lunch \/ q.morning \/ q.afternoon \/ q.evening \/ q.sameTime)

\* C17 (as claimed): when the primary parser gives nothing and the query
\* states a clock time (to the minute) and none of the time-of-day phrases,
\* with no rejected times, the fallback Intent starts at that time on the
\* caller's wall clock, and ends one hour later when no end is stated, in
\* both fallbackParse sources.
C17_ClockTimeInCallerZone ==
    (pc = "parsed" /\ parseResult.method # "llm" /\ NoRejectedTimes
        /\ userQuery.clock.given /\ userQuery.clock.s = 0 /\ NoKeyword(userQuery)) =>
        /\ WallSecond(IntentStart, timezone) =
              userQuery.clock.h * Hour + userQuery.clock.m * Minute
        /\ userQuery.range = 0 => IntentEnd = IntentStart + Hour

\* C18 (as claimed): a request that passes validation carries a supported
\* timezone, a userQuery of 1 to 500 characters and a calendarId, and every
\* field checkAvailability reads has the value of the body, or the default
\* (flexibilityHours 2, duration 30) when the body does not give it.
C18_FieldsReachTheEngine ==
    /\ pc \in {"validated", "engine"} =>
          /\ body.timezone.present /\ body.timezone.value \in USTimezones
          /\ body.userQuery.present /\ body.userQuery.value \in 1..500
          /\ body.calendarId.present
    /\ pc = "engine" =>
          \A key \in ReadFields :
              reads[key] = IF body[key].present THEN body[key] ELSE SchemaDefault(key)

TimeOfDayRule(at, span) == [applies |-> TRUE, at |-> at, span |-> span]

\* The rule the claim gives a query: the first of lunch, morning, afternoon,
\* evening, then 10:00 for one hour when no clock time is stated.
ClaimedRule(q) ==
    IF q.lunch THEN TimeOfDayRule(11 * Hour + 30 * Minute, 2 * Hour)
    ELSE IF q.morning THEN TimeOfDayRule(9 * Hour, 3 * Hour)
    ELSE IF q.afternoon THEN TimeOfDayRule(13 * Hour, 4 * Hour)
    ELSE IF q.evening THEN TimeOfDayRule(17 * Hour, 3 * Hour)
    ELSE IF ~q.clock.given THEN TimeOfDayRule(10 * Hour, Hour)
    ELSE [applies |-> FALSE, at |-> 0, span |-> 0]

\* C19: in the heuristic stage (no rejected times to avoid) the Intent's
\* time of day on the caller's clock and its span are those of the first
\* rule in the order lunch, morning, afternoon, evening, no stated hour,
\* whatever clock time the query states; with "same time" they are now's
\* hour and minute and one hour, whatever other phrase the query holds.
C19_TimeOfDayPriority ==
    (pc = "parsed" /\ parseResult.method = "fallback_chrono" /\ NoRejectedTimes) =>
        IF userQuery.sameTime
          THEN /\ WallSecond(IntentStart, timezone) =
                     HourOf(now, timezone) * Hour + MinuteOf(now, timezone) * Minute
               /\ IntentEnd = IntentStart + Hour
          ELSE ClaimedRule(userQuery).applies =>
                 /\ WallSecond(IntentStart, timezone) = ClaimedRule(userQuery).at
                 /\ IntentEnd = IntentStart + ClaimedRule(userQuery).span

\* A query with "lunch", "morning" and a clock time resolved to 11:30-13:30.
C19_Witness ==
    /\ pc = "parsed" /\ parseResult.method = "fallback_chrono" /\ NoRejectedTimes
    /\ userQuery.lunch /\ userQuery.morning /\ ~userQuery.sameTime /\ userQuery.clock.given
    /\ WallSecond(IntentStart, timezone) = ElevenThirty
    /\ IntentEnd = IntentStart + 2 * Hour

TomorrowTen == SetHourMinute(now + Day, timezone, 10, 0)

Avoided(start) ==
    IF \E r \in RejectedInstants : Abs(start - r) < 30 * Minute THEN start + Hour ELSE start

\* C20 (as claimed): a primary Intent is the model's answer unchanged; the
\* heuristic result and the default result (tomorrow 10:00) are moved one
\* hour when less than 30 minutes from a rejected time.
C20_AvoidanceAfterHeuristicAndDefault ==
    pc = "parsed" =>
        /\ parseResult.method = "llm" =>
              /\ parseResult.startTime = llmOut.startTime
              /\ parseResult.endTime = llmOut.endTime
        /\ parseResult.method = "fallback_chrono" => IntentStart = Avoided(ResolvedStart)
        /\ parseResult.method = "fallback_default" => IntentStart = Avoided(TomorrowTen)

\* C21: an Intent of the heuristic stage has confidence 0.6 and method
\* fallback_chrono; one of the default stage has confidence 0.3, method
\* fallback_default, starts at 10:00 on the caller's clock on the day after
\* now's date in the caller's zone and spans one hour; the default stage is
\* taken iff the date grammar finds nothing in the query.
C21_FallbackTags ==
    (pc = "parsed" /\ parseResult.method # "llm") =>
        /\ parseResult.method =
              IF GrammarFinds(userQuery) THEN "fallback_chrono" ELSE "fallback_default"
        /\ parseResult.method = "fallback_chrono" => parseResult.confidence = 60
        /\ parseResult.method = "fallback_default" =>
              /\ parseResult.confidence = 30
              /\ WallDay(IntentStart, timezone) = WallDay(now, timezone) + 1
              /\ WallSecond(IntentStart, timezone) = 10 * Hour
              /\ IntentEnd = IntentStart + Hour

\* The default stage answered a request that carries rejected times.
C21_Witness ==
    /\ pc = "parsed" /\ parseResult.method = "fallback_default"
    /\ parseResult.confidence = 30
    /\ ~NoRejectedTimes
    /\ WallSecond(IntentStart, timezone) = 10 * Hour

\* Differences from 50 hours before to 50 hours after, each whole hour with
\* the second before and the second after it.
ReasonDiffs == {h * Hour + e : h \in (0 - 50)..50, e \in {0 - 1, 0, 1}}

\* The guard table of the claim, on a difference d in seconds.
ReasonTable(d) ==
    IF (0 - 3) * Hour < d /\ d < 3 * Hour THEN Reason("Very close to requested time", 0)
    ELSE IF 0 < d /\ d < 24 * Hour THEN Reason("Same day, later time", 0)
    ELSE IF (0 - 24) * Hour < d /\ d < 0 THEN Reason("Same day, earlier time", 0)
    ELSE IF d >= 24 * Hour THEN Reason("days later", d \div Day)
    ELSE Reason("days earlier", (0 - d) \div Day)

\* C22: calculateReason gives the reason of the guard table for every
\* difference (|d| < 3 h very close; 0 < d < 24 h same day later; -24 h < d < 0
\* same day earlier; d >= 24 h floor(d / 24) days later; d <= -24 h
\* floor(|d| / 24) days earlier), and every proposed slot carries the reason
\* of its difference from the intent's start and that difference's size as
\* its distance.
C22_ReasonTable ==
    /\ pc = "start" => \A d \in ReasonDiffs : calculateReason(d) = ReasonTable(d)
    /\ Succeeded =>
          \A i \in 1..Len(proposed) :
              LET d == FromISO(proposed[i].start) - IntentStart
              IN /\ proposed[i].reason = ReasonTable(d)
                 /\ proposed[i].distanceSeconds = (IF d < 0 THEN 0 - d ELSE d)

\* Alternatives on both sides of the request: one exactly three hours from
\* the intent's start, one days later, one earlier on the same day.
C22_Witness ==
    /\ Succeeded
    /\ \E i \in 1..Len(proposed) :
          /\ proposed[i].distanceSeconds = 3 * Hour
          /\ proposed[i].reason.text \in {"Same day, later time", "Same day, earlier time"}
    /\ \E i \in 1..Len(proposed) :
          proposed[i].reason.text = "days later" /\ proposed[i].reason.n >= 1
    /\ \E i \in 1..Len(proposed) : proposed[i].reason.text = "Same day, earlier time"

Attempt(calls) == {c.attempt : c \in calls}

\* C23: at most one query is in flight, it is the last one issued, and a
\* query goes out only in the step in which the one before it settles (with
\* a result, an error or a timeout) with no slot left after the rejected
\* times are removed.
C23_OneQueryInFlight ==
    [][ /\ Cardinality(inFlight') <= 1
        /\ inFlight' # {} => (pc' = "cal" /\ Attempt(inFlight') = {Len(issued')})
        /\ (Len(issued') > Len(issued) /\ Len(issued) >= 1) =>
              /\ Attempt(inFlight) = {Len(issued)}
              /\ Len(issued') = Len(issued) + 1
              /\ lastOutcome' \in {"empty", "threw"}
              /\ allSlots' = <<>> ]_vars

\* The third query is in flight, issued when the second timed out ten
\* seconds into the search.
C23_Witness ==
    /\ pc = "cal" /\ Len(issued) = 3
    /\ inFlight = {Call(3, 2 * CalTimeout)}
    /\ lastOutcome = "threw"

\* C24: every query is bounded by its own five-second timer: a timer that is
\* set belongs to the query in flight and fires five seconds after that query
\* was issued (whatever the earlier attempts took), and no query is still in
\* flight after the moment its timer fires.
C24_QueryBoundedByOwnTimer ==
    /\ \A t \in timers : \E c \in inFlight :
          t.attempt = c.attempt /\ t.firesAt = c.issuedAt + CalTimeout
    /\ \A c \in inFlight : elapsed <= c.issuedAt + CalTimeout

\* Values of flexibilityHours the request schema lets through.
FlexibilityRange == 0..24

\* The windows as the specification writes them, for flexibilityHours = flex.
ClaimedWindows(flex) ==
    << Window("requested_range", IntentStart - flex * Hour, IntentEnd + flex * Hour),
       Window("plus_24h", IntentStart - 24 * Hour, IntentEnd + 24 * Hour),
       Window("plus_7d", IntentStart - 7 * Day, IntentEnd + 7 * Day),
       Window("next_30d", IntentStart, IntentStart + 30 * Day) >>

\* C25: the windows queried are [start - flexibilityHours, end +
\* flexibilityHours], [start - 24h, end + 24h], [start - 7d, end + 7d] and
\* [start, start + 30d] of the Intent, in that order, and the last three are
\* the same for every flexibilityHours.
C25_WindowsFromIntent ==
    (HasIntent /\ parseResult.method # "none") =>
        /\ \A k \in 1..Len(issued) : issued[k] = ClaimedWindows(flexibilityHours)[k]
        /\ pc = "parsed" => \A flex \in FlexibilityRange :
              /\ Attempts(parseResult, flex * Hour) = ClaimedWindows(flex)
              /\ \A k \in 2..4 : Attempts(parseResult, flex * Hour)[k]
                                   = Attempts(parseResult, 0)[k]

\* All four windows were queried with flexibilityHours = 2, the last one
\* starting at the Intent's start.
C25_Witness ==
    /\ pc = "done" /\ Len(issued) = 4 /\ flexibilityHours = 2
    /\ issued[1].start = IntentStart - 2 * Hour
    /\ issued[2].start = IntentStart - 24 * Hour
    /\ issued[4].start = IntentStart /\ issued[4].end = IntentStart + 30 * Day

\* Window outer covers window inner.
Covers(outer, inner) == outer.start <= inner.start /\ inner.end <= outer.end

\* C26 (as claimed): each window covers the one before it, for every
\* flexibilityHours from 0 to 24.
C26_EachWindowCoversThePrevious ==
    pc = "parsed" =>
        \A flex \in FlexibilityRange :
            LET attempts == Attempts(parseResult, flex * Hour)
            IN \A k \in 1..3 : Covers(attempts[k + 1], attempts[k])

\* C26 (amended): the first three windows are nested, requested_range within
\* plus_24h within plus_7d, for every flexibilityHours from 0 to 24; next_30d
\* starts at the Intent's start, after the start of plus_24h and of plus_7d,
\* so it covers neither of them, and it covers requested_range only when
\* flexibilityHours is 0.  The same holds of the windows queried.
C26_NestedUpToSevenDays ==
    /\ pc = "parsed" =>
          \A flex \in FlexibilityRange :
              LET attempts == Attempts(parseResult, flex * Hour)
              IN /\ Covers(attempts[2], attempts[1])
                 /\ Covers(attempts[3], attempts[2])
                 /\ attempts[4].start = IntentStart
                 /\ ~Covers(attempts[4], attempts[3])
                 /\ ~Covers(attempts[4], attempts[2])
                 /\ Covers(attempts[4], attempts[1]) <=>
                        (flex = 0 /\ IntentEnd <= IntentStart + 30 * Day)
    /\ \A k \in 1..Len(issued) :
          /\ k \in 2..3 => Covers(issued[k], issued[k - 1])
          /\ k = 4 => (issued[4].start > issued[3].start /\ ~Covers(issued[4], issued[3]))

\* The four windows were queried with flexibilityHours = 2: the last one
\* starts after the start of each of the first three.
C26_Witness ==
    /\ pc = "done" /\ Len(issued) = 4 /\ flexibilityHours = 2
    /\ Covers(issued[3], issued[2]) /\ Covers(issued[2], issued[1])
    /\ issued[4].start > issued[1].start
    /\ issued[4].start > issued[3].start

\* Durations the request schema lets through: the least, the default, the
\* greatest.
Durations == {15, DefaultDuration, 180}

\* The answers of the slot source to the query in flight that carry a body
\* of times.
Answers == {o \in CalOutcomes(LLMStart(now, timezone)) : o.kind = "ok"}

Readable(times) == \A i \in 1..Len(times) : IsValidISO(times[i])

\* One slot for each entry, in the order of the entries: its start is the
\* entry's time and its end is duration minutes later.
OneSlotPerEntry(times, slots, minutes) ==
    /\ Len(slots) = Len(times)
    /\ \A i \in 1..Len(times) :
          /\ slots[i].start = times[i]
          /\ IsValidISO(slots[i].end)
          /\ FromISO(slots[i].end) = FromISO(times[i]) + minutes * Minute

\* C27 (as claimed): whatever times the response carries, the query returns
\* one slot for each entry, from time to time + duration, and an empty list
\* for no entry.
C27_OneSlotForEveryEntry ==
    (pc = "cal" /\ Len(issued) = 1) =>
        \A o \in Answers : \A minutes \in Durations :
            LET got == queryCalAvailability(o, minutes)
            IN ~got.threw /\ OneSlotPerEntry(o.times, got.slots, minutes)

\* C27 (amended): when every time of the response is a readable timestamp,
\* the query returns one slot for each entry, from time to time + duration,
\* none left out and none twice, and an empty list for no entry; when some
\* time is unreadable the query throws and returns no slot.  Every slot a
\* query has returned spans the requested duration.
C27_OneSlotForEveryReadableEntry ==
    /\ (pc = "cal" /\ Len(issued) = 1) =>
          \A o \in Answers : \A minutes \in Durations :
              LET got == queryCalAvailability(o, minutes)
              IN IF Readable(o.times)
                 THEN ~got.threw /\ OneSlotPerEntry(o.times, got.slots, minutes)
                 ELSE got.threw /\ got.slots = <<>>
    /\ \A i \in 1..Len(returned) :
          FromISO(returned[i].end) - FromISO(returned[i].start) = duration * Minute

\* A query has returned nine slots or more, on more than one calendar day,
\* each with the start the source gave and ending thirty minutes later.
C27_Witness ==
    /\ lastOutcome \in {"slots", "empty"}
    /\ Len(returned) >= 9
    /\ \E i, j \in 1..Len(returned) :
          WallDay(FromISO(returned[i].start), timezone)
              # WallDay(FromISO(returned[j].start), timezone)
    /\ \A i \in 1..Len(returned) :
          /\ returned[i].start = Calendar(LLMStart(now, timezone))[i]
          /\ FromISO(returned[i].end) = FromISO(returned[i].start) + 30 * Minute

\* C28: the start the heuristic fallback resolves, after its time-of-day
\* overrides, is never an instant before now.
C28_FallbackStartNotBeforeNow ==
    (pc = "parsed" /\ parseResult.method \in {"fallback_chrono", "fallback_default"}) =>
        IntentStart >= now

\* The Intent of the heuristic fallback for the inputs of the request.
FallbackIntent ==
    LET r == fallbackParse(variant, userQuery, now, timezone, sysOff, rejectedTimes)
    IN Intent(r, FallbackMethod(r.confidence))

InRange(t, range) == range.start <= t /\ t <= range.end

\* C30: metadata.searchRange of a success is the Intent widened by
\* flexibilityHours on both sides, the first window, whichever window gave
\* the slots.
C30_SearchRangeIsFirstWindow ==
    Succeeded =>
        /\ response.searchRange = [start |-> IntentStart - flexibilityHours * Hour,
                                   end |-> IntentEnd + flexibilityHours * Hour]
        /\ response.searchRange.start = issued[1].start
        /\ response.searchRange.end = issued[1].end

\* The third window gave the slots, all inside it, with flexibilityHours = 2:
\* the range reported is the first window, and a slot proposed lies outside
\* it.
C30_Witness ==
    /\ Succeeded /\ Len(issued) = 3 /\ flexibilityHours = 2
    /\ response.searchRange.start = IntentStart - 2 * Hour
    /\ \A i \in 1..Len(allSlots) :
          InRange(FromISO(allSlots[i].start), [start |-> issued[3].start, end |-> issued[3].end])
    /\ \E i \in 1..Len(proposed) :
          ~InRange(FromISO(proposed[i].start), response.searchRange)

\* The Intent the fallback would give for the same request without rejected
\* times.
UnrejectedIntent ==
    LET r == fallbackParse(variant, userQuery, now, timezone, sysOff, NoRejected)
    IN Intent(r, FallbackMethod(r.confidence))

NonEmptyRejected == rejectedTimes.defined /\ Len(rejectedTimes.list) > 0

\* C31: with a non-empty rejectedTimes and a candidate found by the date
\* grammar, the Intent of the heuristic fallback ends exactly one hour after
\* it starts, whether the start was shifted or not, whatever span the
\* time-of-day rule or the grammar had given.
C31_OneHourSpanWithRejectedTimes ==
    (HasIntent /\ NonEmptyRejected /\ GrammarFinds(userQuery)) =>
        /\ parseResult.method = "fallback_chrono"
        /\ IntentEnd = IntentStart + Hour

\* "tomorrow around lunch" with rejected times none of which is near 11:30:
\* the start is not shifted, and the two-hour lunch span has become one hour.
C31_Witness ==
    /\ pc = "parsed" /\ NonEmptyRejected /\ userQuery.lunch
    /\ parseResult.method = "fallback_chrono"
    /\ IntentStart = FromISO(UnrejectedIntent.startTime)
    /\ FromISO(UnrejectedIntent.endTime) = IntentStart + 2 * Hour
    /\ IntentEnd = IntentStart + Hour

\* Rejected entries around a start: 30 and 29 minutes before it, 10 and 30
\* minutes and one hour after it, and two unreadable ones.
RejectedPool(start) ==
    {Str(start + d, "offset") : d \in {0 - 30 * Minute, 0 - 29 * Minute, 10 * Minute,
                                        30 * Minute, Hour}}
    \cup {Str(0, "garbage"), Str(start, "bad_calendar")}

\* Lists of up to three of them, in every order.
RejectedLists(start) ==
    UNION {[1..n -> RejectedPool(start)] : n \in 0..3}

Reversed(list) == [i \in 1..Len(list) |-> list[Len(list) + 1 - i]]
Rotated(list) == [i \in 1..Len(list) |-> list[(i % Len(list)) + 1]]

\* Some readable entry lies strictly less than 30 minutes from start.
NearRejected(start, list) ==
    \E i \in 1..Len(list) :
        IsValidISO(list[i]) /\ Abs(start - FromISO(list[i])) < 30 * Minute

Shifted(start, list) == IF NearRejected(start, list) THEN start + Hour ELSE start

\* C32: avoidRejectedTimes moves the start by exactly one hour when some
\* readable rejected time is strictly less than 30 minutes from it and leaves
\* it alone otherwise, in whatever order the rejected times are listed; an
\* entry exactly 30 minutes away or an unreadable entry moves nothing.  The
\* heuristic stage's start is the start so moved.
C32_ShiftIndependentOfOrder ==
    /\ pc = "start" =>
          LET start == LLMStart(now, timezone)
          IN \A list \in RejectedLists(start) :
                /\ avoidRejectedTimes(start, list) = Shifted(start, list)
                /\ avoidRejectedTimes(start, Reversed(list)) = avoidRejectedTimes(start, list)
                /\ avoidRejectedTimes(start, Rotated(list)) = avoidRejectedTimes(start, list)
    /\ (HasIntent /\ NonEmptyRejected /\ GrammarFinds(userQuery)) =>
          IntentStart = Shifted(FromISO(UnrejectedIntent.startTime), rejectedTimes.list)

\* The heuristic stage resolved tomorrow 11:30, and the rejected list holds
\* an unreadable entry first and 11:30 itself second: the start is 12:30.
C32_Witness ==
    /\ pc = "parsed" /\ parseResult.method = "fallback_chrono"
    /\ rejectedTimes = Rejected(<<Str(0, "garbage"), Str(LLMStart(now, timezone), "offset")>>)
    /\ FromISO(UnrejectedIntent.startTime) = LLMStart(now, timezone)
    /\ IntentStart = LLMStart(now, timezone) + Hour

OnEndpoint == httpRequest.method = "POST" /\ httpRequest.path = "/check-availability"

NoCallMade == llmCalls = 0 /\ issued = <<>> /\ inFlight = {}

\* C33 (as claimed): a request that is not a POST is answered
\* METHOD_NOT_ALLOWED (405); a POST to the endpoint whose body is not JSON
\* INVALID_JSON (400), whose body fails the schema VALIDATION_ERROR (400), and
\* with a key missing CONFIG_ERROR (500); no call has been made.
C33_EarlyErrors ==
    pc = "done" =>
        /\ httpRequest.method # "POST" => response = Response("METHOD_NOT_ALLOWED", 405)
        /\ OnEndpoint =>
              response = (IF ~httpRequest.json THEN Response("INVALID_JSON", 400)
                          ELSE IF ~SchemaAccepts(httpRequest.payload)
                          THEN Response("VALIDATION_ERROR", 400)
                          ELSE Response("CONFIG_ERROR", 500))
        /\ NoCallMade

\* The answer to a request that is not a POST.
NotPostAnswer ==
    IF httpRequest.method = "OPTIONS" THEN Response("CORS_PREFLIGHT", 204)
    ELSE Response("METHOD_NOT_ALLOWED", 405)

\* Nothing stops the request before the engine.
PassesChecks ==
    /\ OnEndpoint /\ httpRequest.json /\ SchemaAccepts(httpRequest.payload)
    /\ env = Env(TRUE, TRUE)

\* C33 (amended): an OPTIONS request is answered as a preflight (204) and any
\* other request that is not a POST with METHOD_NOT_ALLOWED (405); a POST to
\* the endpoint is answered INVALID_JSON (400) when its body is not JSON,
\* else VALIDATION_ERROR (400) when it fails the schema, else CONFIG_ERROR
\* (500) when a key is missing; in each case no call has been made, and the
\* language-model call is made only for a request that passes all of them.
C33_EarlyErrorsButPreflight ==
    /\ pc = "done" =>
          /\ httpRequest.method # "POST" => response = NotPostAnswer
          /\ OnEndpoint =>
                response = (IF ~httpRequest.json THEN Response("INVALID_JSON", 400)
                            ELSE IF ~SchemaAccepts(httpRequest.payload)
                            THEN Response("VALIDATION_ERROR", 400)
                            ELSE Response("CONFIG_ERROR", 500))
          /\ NoCallMade
    /\ pc \in {"engine", "start", "llm"} => PassesChecks
    /\ ~PassesChecks => NoCallMade
    /\ (OnEndpoint /\ env # Env(TRUE, TRUE)) => reads = NoReads

\* A valid POST with CAL_API_KEY missing was answered CONFIG_ERROR with no
\* call made.
C33_Witness ==
    /\ pc = "done" /\ OnEndpoint /\ httpRequest.json
    /\ validatedRequest # NoBody
    /\ env = Env(TRUE, FALSE)
    /\ response = Response("CONFIG_ERROR", 500)
    /\ NoCallMade

\* C34: once the Intent is resolved exactly one call of the language model
\* has been made in the request; the heuristic parser has run only after
\* that call came back with a failure; and no slot-source query is issued
\* while the call is awaited or before the Intent is resolved.
C34_OneModelCallThenSearch ==
    /\ llmCalls <= 1
    /\ HasIntent => llmCalls = 1
    /\ (pc = "parsed" /\ parseResult.method # "llm") =>
          (llmCalls = 1 /\ llmOut.kind # "none")
    /\ pc \in {"start", "llm"} => (issued = <<>> /\ parseResult = NoIntent)
    /\ issued # <<>> => HasIntent

\* C35: in a success, metadata.timings.llmMs is present exactly when the
\* parsing method is 'llm', so the wait for a language-model call that failed
\* is not reported; calApiMs and totalMs are always present.
C35_LlmMsOnlyForLlm ==
    Succeeded =>
        /\ response.timings.llmMs <=> parseResult.method = "llm"
        /\ response.timings.calApiMs
        /\ response.timings.totalMs

\* A success whose Intent came from a fallback stage after the one call of
\* the language model failed: llmMs is absent.
C35_Witness ==
    /\ Succeeded /\ llmCalls = 1
    /\ parseResult.method \in {"fallback_chrono", "fallback_default"}
    /\ ~response.timings.llmMs
    /\ response.timings.calApiMs /\ response.timings.totalMs

====
